---- MODULE Spec2Model ----
(***************************************************************************)
(* Culture-fit analysis pipeline: run_full_analysis (api/services/         *)
(* pipeline.py), CompanyAnalysisChain.run, ApplicantAnalysisChain          *)
(* (analyze_pdf, analyze_local_pdfs, run_from_s3, run_from_local_pdfs),    *)
(* the S3 / local PDF loaders and match_company.                           *)
(*                                                                         *)
(* Text is a sequence of one-character strings.  Hangul syllables are      *)
(* written as romanised tokens ("ko:to"), organisation names as ASCII      *)
(* identifiers: HyundaiAutoever, Upstage, Toss.                            *)
(***************************************************************************)
EXTENDS Integers, Sequences, FiniteSets, TLC

VARIABLES
    entry,           \* which entry point runs: "full" | "local" | "none"
    save_to_db,      \* the save_to_db argument of the entry point
    ready,           \* event loop ready queue of branch tasks (FIFO)
    pcM,             \* run_full_analysis: position of the main coroutine
    outcome,         \* what run_full_analysis gave its caller
    pcC,             \* CompanyAnalysisChain.run: position
    cRes,            \* gather slot of the organization branch
    job_content,     \* text of the job posting page
    company_name,    \* match_company result
    supIdx,          \* index of the next supplementary URL
    all_contents,    \* the sections of the combined text
    fetchLog,        \* fetches made by the chain's scraper: url, success
    llmCalls,        \* provider calls made by the organization branch
    browser,         \* BrowserScraper._browser: "none" | "running"
    pcA,             \* applicant analysis: position
    aRes,            \* gather slot of the applicant branch
    docs,            \* document references given to applicant analysis
    keys_as_list,    \* applicant_s3_keys reaches run_from_s3 as a list
    curIdx,          \* load_files: index of the document being loaded
    gemini_files,    \* load_files: gemini_files; load_from_s3: gemini_file
    cur,             \* _upload_to_gemini: uploaded_file (id, state)
    elapsed,         \* _upload_to_gemini: elapsed
    statusQueries,   \* number of files.get calls of the current upload
    uploaded_files,  \* self._uploaded_file / self._uploaded_files
    pending,         \* exception or value in flight through finally
    genLog,          \* provider generate calls: attached handles of each
    remote,          \* ids of documents present on the remote service
    nextId,          \* next remote id handed out by files.upload
    deleteCalls,     \* per remote id: number of files.delete invocations
    returnedIds,     \* ids of handles the loader returned to the chain
    saves,           \* persistence calls made, in order
    compareCalls,    \* invocations of the comparison stage
    closed,          \* chains on which close() was invoked, in order
    call,            \* function exercised on its own, "none" in the pipeline
    arg,             \* its argument
    ret              \* what it returned so far

vars == << entry, save_to_db, ready, pcM, outcome, pcC, cRes, job_content,
           company_name, supIdx, all_contents, fetchLog, llmCalls, browser, pcA, aRes, docs,
           curIdx, gemini_files, cur, elapsed, statusQueries, uploaded_files,
           pending, genLog, remote, nextId, deleteCalls, returnedIds, saves,
           compareCalls, closed, keys_as_list, call, arg, ret >>

mainVars == << pcM, outcome, compareCalls, closed >>
companyVars == << pcC, cRes, job_content, company_name, supIdx, all_contents, fetchLog,
                  llmCalls, browser >>
applicantVars == << pcA, aRes, curIdx, gemini_files, cur, elapsed,
                    statusQueries, uploaded_files, pending, genLog, remote,
                    nextId, deleteCalls, returnedIds >>
inputVars == << entry, save_to_db, docs, keys_as_list >>
fnVars == << call, arg, ret >>
pipelineVars == << mainVars, companyVars, applicantVars, inputVars, ready, saves >>

(***************************************************************************)
(* Bounds                                                                  *)
(***************************************************************************)
MaxDocs == 2

(***************************************************************************)
(* Text helpers                                                            *)
(***************************************************************************)
NONE == "None"

UpperLetters ==
    << "A","B","C","D","E","F","G","H","I","J","K","L","M",
       "N","O","P","Q","R","S","T","U","V","W","X","Y","Z" >>
LowerLetters ==
    << "a","b","c","d","e","f","g","h","i","j","k","l","m",
       "n","o","p","q","r","s","t","u","v","w","x","y","z" >>

\* position of c in letters, 0 when it is not one of them
IndexOf(letters, c) ==
    IF \E i \in DOMAIN letters : letters[i] = c
    THEN CHOOSE i \in DOMAIN letters : letters[i] = c
    ELSE 0

\* str.lower() on one character
LowerChar(c) ==
    LET i == IndexOf(UpperLetters, c) IN IF i = 0 THEN c ELSE LowerLetters[i]

\* str.upper() on one character
UpperChar(c) ==
    LET i == IndexOf(LowerLetters, c) IN IF i = 0 THEN c ELSE UpperLetters[i]

\* str.upper(), str.swapcase()
Upper(s) == [i \in 1..Len(s) |-> UpperChar(s[i])]
SwapCase(s) ==
    [i \in 1..Len(s) |-> IF LowerChar(s[i]) = s[i] THEN UpperChar(s[i]) ELSE LowerChar(s[i])]

\* str.lower()
Lower(s) == [i \in 1..Len(s) |-> LowerChar(s[i])]

\* `kw in text`
Contains(text, kw) ==
    \E i \in 0..(Len(text) - Len(kw)) : SubSeq(text, i + 1, i + Len(kw)) = kw

(***************************************************************************)
(* Static configuration (config.py)                                        *)
(***************************************************************************)
COMPANY_KEYWORDS ==
    << [company |-> "HyundaiAutoever",
        keywords |-> << <<"ko:hyeon","ko:dae","ko:o","ko:to","ko:e","ko:beo">>,
                        <<"h","y","u","n","d","a","i"," ","a","u","t","o","e","v","e","r">>,
                        <<"a","u","t","o","e","v","e","r">> >>],
       [company |-> "Upstage",
        keywords |-> << <<"ko:eop","ko:seu","ko:te","ko:i","ko:ji">>,
                        <<"u","p","s","t","a","g","e">> >>],
       [company |-> "Toss",
        keywords |-> << <<"ko:to","ko:seu">>,
                        <<"t","o","s","s">>,
                        <<"ko:bi","ko:ba","ko:ri","ko:peo","ko:beul","ko:ri","ko:ka">>,
                        <<"v","i","v","a"," ","r","e","p","u","b","l","i","c","a">> >>] >>

COMPANY_SOURCES ==
    [c \in {"HyundaiAutoever", "Upstage", "Toss"} |->
        CASE c = "HyundaiAutoever" ->
                << "https://career.hyundai-autoever.com/ko/people",
                   "https://career.hyundai-autoever.com/ko/life",
                   "https://career.hyundai-autoever.com/ko/embeddedsw" >>
          [] c = "Upstage" ->
                << "https://www.upstage.ai/about",
                   "https://www.upstage.ai/careers" >>
          [] c = "Toss" ->
                << "https://toss.im/career/culture",
                   "https://toss.im/career/community/toss" >>]

\* FirstMatch answering the last declared organization that matches
FirstMatch_LastDeclared(text_lower, i, n) ==
    LET hits == { j \in i..n :
                    \E k \in 1..Len(COMPANY_KEYWORDS[j].keywords) :
                        Contains(text_lower, Lower(COMPANY_KEYWORDS[j].keywords[k])) }
    IN  IF hits = { } THEN 0 ELSE CHOOSE j \in hits : \A h \in hits : h <= j

\* the loop of match_company from the i-th declared organization on: index
\* of the first one with a keyword in text_lower, 0 when there is none
RECURSIVE FirstMatch(_, _, _)
FirstMatch(text_lower, i, n) ==
    IF i > n THEN 0
    ELSE IF \E k \in 1..Len(COMPANY_KEYWORDS[i].keywords) :
                Contains(text_lower, Lower(COMPANY_KEYWORDS[i].keywords[k]))
         THEN i
         ELSE FirstMatch(text_lower, i + 1, n)

\* match_company without lower-casing the text
match_company_CaseSensitive(text) ==
    LET idx == FirstMatch(text, 1, Len(COMPANY_KEYWORDS))
    IN  IF idx = 0 THEN NONE ELSE COMPANY_KEYWORDS[idx].company

match_company(text) ==
    LET idx == FirstMatch(Lower(text), 1, Len(COMPANY_KEYWORDS))
    IN  IF idx = 0 THEN NONE ELSE COMPANY_KEYWORDS[idx].company

get_company_sources(company) ==
    IF company \in DOMAIN COMPANY_SOURCES THEN COMPANY_SOURCES[company] ELSE << >>

SUPPORTED_COMPANIES == [i \in 1..Len(COMPANY_KEYWORDS) |-> COMPANY_KEYWORDS[i].company]

(***************************************************************************)
(* Inputs                                                                  *)
(***************************************************************************)
company_url == "https://toss.im/career/job-detail"

\* texts the primary page may render to
PageTexts ==
    { <<"T","o","s","s">>,
      <<"j","o","i","n"," ","t","o","s","s">>,
      <<"U","P","S","T","A","G","E">>,
      <<"a","u","t","o","e","v","e","r">>,
      <<"t","o","s","s"," ","u","p","s","t","a","g","e">>,
      <<"ko:to","ko:seu">>,
      <<"k","a","k","a","o">> }

S3Keys == { "tok/resume.pdf", "tok/portfolio.pdf" }
LocalPaths == { "resume.pdf", "essay.PDF", "memo.txt" }

\* Path(p).suffix.lower()
SuffixLower(p) == IF p = "memo.txt" THEN ".txt" ELSE ".pdf"

States == { "PROCESSING", "ACTIVE", "FAILED" }

max_wait_seconds == 60

RECURSIVE SeqsUpTo(_, _)
SeqsUpTo(S, n) ==
    IF n = 0 THEN { << >> }
    ELSE LET shorter == SeqsUpTo(S, n - 1)
         IN  shorter \cup { Append(s, x) : s \in { t \in shorter : Len(t) = n - 1 }, x \in S }

\* no document reference occurs twice
Distinct(d) == \A i, j \in 1..Len(d) : d[i] = d[j] => i = j

Pending == [status |-> "pending"]
Ok == [status |-> "ok"]
Err(kind, src, doc) == [status |-> "err", kind |-> kind, src |-> src, doc |-> doc]

Terminal(r) == r.status # "pending"

(***************************************************************************)
(* Init: the chains are constructed, the branch coroutines are wrapped in  *)
(* tasks by asyncio.gather in argument order.                              *)
(***************************************************************************)
\* the state of the pipeline variables before any branch has run
Constructed ==
    /\ ready = IF entry = "full" THEN << "C", "A" >>
               ELSE IF entry = "local" THEN << "A" >> ELSE << >>
    /\ pcM = IF entry = "full" THEN "gather" ELSE "idle"
    /\ outcome = Pending
    /\ pcC = IF entry = "full" THEN "init" ELSE "idle"
    /\ cRes = Pending
    /\ job_content = << >>
    /\ company_name = NONE
    /\ supIdx = 1
    /\ all_contents = << >>
    /\ fetchLog = << >>
    /\ llmCalls = 0
    /\ browser = "none"
    /\ pcA = IF entry = "none" THEN "idle" ELSE "load"
    /\ aRes = Pending
    /\ curIdx = 1
    /\ gemini_files = << >>
    /\ cur = [name |-> 0, state |-> "PROCESSING"]
    /\ elapsed = 0
    /\ statusQueries = 0
    /\ uploaded_files = << >>
    /\ pending = Pending
    /\ genLog = << >>
    /\ remote = { }
    /\ nextId = 1
    /\ deleteCalls = << >>
    /\ returnedIds = { }
    /\ saves = << >>
    /\ compareCalls = 0
    /\ closed = << >>

\* no entry point of the pipeline runs: a single function is exercised
NoPipeline ==
    /\ entry = "none"
    /\ save_to_db = FALSE
    /\ docs = << >>
    /\ keys_as_list = FALSE
    /\ Constructed

\* run_full_analysis declares applicant_s3_keys: list[str] and hands the
\* value unchanged to run_from_s3(s3_key: str); neither annotation is
\* enforced, so the value is a list of keys (keys_as_list) or one key.
Init ==
    /\ entry \in { "full", "local" }
    /\ save_to_db \in BOOLEAN
    /\ keys_as_list \in IF entry = "full" THEN BOOLEAN ELSE { FALSE }
    /\ docs \in IF entry = "full"
                THEN IF keys_as_list
                     THEN { d \in SeqsUpTo(S3Keys, MaxDocs) : d # << >> /\ Distinct(d) }
                     ELSE { <<k>> : k \in S3Keys }
                ELSE { d \in SeqsUpTo(LocalPaths, MaxDocs) : d # << >> /\ Distinct(d) }
    /\ call = "none"
    /\ arg = << >>
    /\ ret = << >>
    /\ Constructed

(***************************************************************************)
(* Event loop.  A branch task runs from one suspension point to the next.  *)
(* Tasks created by gather sit in the ready queue in argument order; the   *)
(* completion of an awaited external call is handled only once the ready   *)
(* queue holds no earlier task.  The applicant coroutines contain no       *)
(* suspending await (boto3, google-genai and time.sleep calls are          *)
(* synchronous), so the applicant task keeps the loop until it terminates. *)
(***************************************************************************)
CanRunC == ready = << >>
CanRunA == ready # << >> /\ Head(ready) = "A"

(***************************************************************************)
(* CompanyAnalysisChain.run                                                *)
(***************************************************************************)
PrimarySection == [url |-> company_url, kind |-> "job_posting"]
ContentSection(url) == [url |-> url, kind |-> "content"]
Fetch(url, success) == [url |-> url, success |-> success]

\* what scraping the job posting may give: the browser fails to launch
\* (start() raises), the fetch fails (success = False), or a rendered text
PrimaryOutcomes ==
    { [kind |-> k, text |-> << >>] : k \in { "launch_error", "fetch_failed" } }
    \cup { [kind |-> "ok", text |-> t] : t \in PageTexts }

\* the branch raises: the exception lands in its gather slot
CompanyRaise(e) ==
    /\ cRes' = e
    /\ pcC' = "done"

\* run() up to the first suspension (inside BrowserScraper.start)
C_Start ==
    /\ pcC = "init"
    /\ ready # << >> /\ Head(ready) = "C"
    /\ ready' = Tail(ready)
    /\ pcC' = "scrape_primary"
    /\ UNCHANGED << cRes, job_content, company_name, supIdx, all_contents,
                    fetchLog, llmCalls, browser >>
    /\ UNCHANGED << mainVars, applicantVars, inputVars, fnVars, saves >>

\* AfterMatch without the early exit on no match
AfterMatch_NoEarlyExit(name) == "scrape_more"

\* where run() goes once match_company has answered
AfterMatch(name) == IF name = NONE THEN "close_unsupported" ELSE "scrape_more"

\* steps 1-2: scrape the job posting, match the company
C_ScrapePrimary ==
    /\ pcC = "scrape_primary"
    /\ CanRunC
    /\ \E r \in PrimaryOutcomes :
        IF r.kind = "launch_error"
        THEN /\ CompanyRaise(Err("BrowserLaunchError", "BrowserScraper.start", NONE))
             /\ UNCHANGED << job_content, company_name, all_contents, fetchLog, browser >>
        ELSE /\ browser' = "running"
             /\ fetchLog' = Append(fetchLog, Fetch(company_url, r.kind = "ok"))
             /\ IF r.kind = "fetch_failed"
                THEN /\ CompanyRaise(Err("Exception", "CompanyAnalysisChain.run:scrape", NONE))
                     /\ UNCHANGED << job_content, company_name, all_contents >>
                ELSE /\ job_content' = r.text
                     /\ company_name' = match_company(r.text)
                     /\ pcC' = AfterMatch(match_company(r.text))
                     /\ all_contents' = << PrimarySection >>
                     /\ cRes' = cRes
    /\ UNCHANGED << supIdx, llmCalls >>
    /\ UNCHANGED << ready, mainVars, applicantVars, inputVars, fnVars, saves >>

\* no match: close the scraper, raise UnsupportedCompanyError
C_CloseUnsupported ==
    /\ pcC = "close_unsupported"
    /\ CanRunC
    /\ browser' = "none"
    /\ CompanyRaise([status |-> "err", kind |-> "UnsupportedCompanyError",
                     src |-> "CompanyAnalysisChain.run:match", doc |-> NONE,
                     lists |-> SUPPORTED_COMPANIES])
    /\ UNCHANGED << job_content, company_name, supIdx, all_contents, fetchLog, llmCalls >>
    /\ UNCHANGED << ready, mainVars, applicantVars, inputVars, fnVars, saves >>

\* what the loop of step 3 adds to all_contents for one fetched URL
SectionsFor(url, success) == IF success THEN << ContentSection(url) >> ELSE << >>

\* NextSupIdx of a loop that gives up at the first failed fetch
NextSupIdx_BreakOnFailure(i, success) == IF success THEN i + 1 ELSE i + 3

\* the loop index after the fetch of additional_urls[i]
NextSupIdx(i, success) == i + 1

\* step 3: one iteration of the loop over additional_urls
C_ScrapeAdditional ==
    /\ pcC = "scrape_more"
    /\ CanRunC
    /\ supIdx <= Len(get_company_sources(company_name))
    /\ LET url == get_company_sources(company_name)[supIdx]
       IN  \E success \in BOOLEAN :
            /\ fetchLog' = Append(fetchLog, Fetch(url, success))
            /\ all_contents' = all_contents \o SectionsFor(url, success)
            /\ supIdx' = NextSupIdx(supIdx, success)
    /\ UNCHANGED << pcC, cRes, job_content, company_name, llmCalls, browser >>
    /\ UNCHANGED << ready, mainVars, applicantVars, inputVars, fnVars, saves >>

\* await self.scraper.close() after the loop
C_CloseScraper ==
    /\ pcC = "scrape_more"
    /\ CanRunC
    /\ supIdx > Len(get_company_sources(company_name))
    /\ browser' = "none"
    /\ pcC' = "collect"
    /\ UNCHANGED << cRes, job_content, company_name, supIdx, all_contents, fetchLog, llmCalls >>
    /\ UNCHANGED << ready, mainVars, applicantVars, inputVars, fnVars, saves >>

\* what one provider round trip plus parse_json_with_markdown may give
LLMOutcomes == { "raise", "malformed", "json" }

\* step 5: collect_company_data
C_CollectData ==
    /\ pcC = "collect"
    /\ CanRunC
    /\ llmCalls' = llmCalls + 1
    /\ \E r \in LLMOutcomes :
        CASE r = "raise" ->
                CompanyRaise(Err("ProviderError", "collect_company_data:ainvoke", NONE))
          [] r = "malformed" ->
                CompanyRaise(Err("JSONDecodeError", "collect_company_data:parse", NONE))
          [] r = "json" ->
                /\ pcC' = "analyze"
                /\ cRes' = cRes
    /\ UNCHANGED << job_content, company_name, supIdx, all_contents, fetchLog, browser >>
    /\ UNCHANGED << ready, mainVars, applicantVars, inputVars, fnVars, saves >>

\* steps 6-7: analyze_culture, attach _meta, save when save_to_db
C_AnalyzeCulture ==
    /\ pcC = "analyze"
    /\ CanRunC
    /\ llmCalls' = llmCalls + 1
    /\ \E r \in LLMOutcomes :
        CASE r = "raise" ->
                /\ CompanyRaise(Err("ProviderError", "analyze_culture:ainvoke", NONE))
                /\ saves' = saves
          [] r = "malformed" ->
                /\ CompanyRaise(Err("JSONDecodeError", "analyze_culture:parse", NONE))
                /\ saves' = saves
          [] r = "json" ->
                IF save_to_db
                THEN /\ saves' = Append(saves, "company")
                     /\ \E saved \in BOOLEAN :
                          IF saved
                          THEN cRes' = Ok /\ pcC' = "done"
                          ELSE CompanyRaise(Err("PyMongoError", "save_company_profile", NONE))
                ELSE /\ saves' = saves
                     /\ cRes' = Ok
                     /\ pcC' = "done"
    /\ UNCHANGED << job_content, company_name, supIdx, all_contents, fetchLog, browser >>
    /\ UNCHANGED << ready, mainVars, applicantVars, inputVars, fnVars >>

(***************************************************************************)
(* Applicant analysis.  entry = "full": run_from_s3 -> analyze_pdf with    *)
(* S3PDFLoader; entry = "local": run_from_local_pdfs -> analyze_local_pdfs *)
(* with LocalPDFLoader.                                                    *)
(***************************************************************************)
\* s3_key.split('/')[-1] and Path(file_path).name
Basename(ref) ==
    CASE ref = "tok/resume.pdf" -> "resume.pdf"
      [] ref = "tok/portfolio.pdf" -> "portfolio.pdf"
      [] OTHER -> ref

Handle(id, display_name, state) ==
    [name |-> id, display_name |-> display_name, state |-> state]

Ids(files) == { files[i].name : i \in 1..Len(files) }

\* an exception raised inside the try block: the finally clause runs next
ApplicantRaise(e) ==
    /\ pending' = e
    /\ pcA' = "finally"

\* the applicant task reaches a terminal state and leaves the loop
ApplicantEnd(r) ==
    /\ aRes' = r
    /\ pcA' = "done"
    /\ ready' = Tail(ready)

\* _download_from_s3: success of the S3DownloadResult.  Every exception is
\* caught and reported as success = False; given a list, s3_key.split
\* raises inside the try block when get_object has not already raised.
DownloadOutcomes(is_list) == IF is_list THEN { FALSE } ELSE BOOLEAN

\* the exception load_from_s3 raises with the error_message of the failed
\* download: an S3 failure, or the list that is no key
DownloadError(is_list) ==
    Err("Exception",
        IF is_list THEN "load_from_s3:key_is_list" ELSE "load_from_s3:download",
        NONE)

\* S3PDFLoader.load_from_s3: _download_from_s3, raise when it failed
A_Download ==
    /\ entry = "full"
    /\ pcA = "load"
    /\ CanRunA
    /\ \E success \in DownloadOutcomes(keys_as_list) :
         IF success
         THEN pcA' = "upload" /\ pending' = pending
         ELSE ApplicantRaise(DownloadError(keys_as_list))
    /\ UNCHANGED << aRes, curIdx, gemini_files, cur, elapsed, statusQueries,
                    uploaded_files, genLog, remote, nextId, deleteCalls,
                    returnedIds >>
    /\ UNCHANGED << ready, mainVars, companyVars, inputVars, fnVars, saves >>

\* LocalPDFLoader.load_file up to the upload, for file_paths[curIdx]
A_LoadFile ==
    /\ entry = "local"
    /\ pcA = "load"
    /\ CanRunA
    /\ LET file_path == docs[curIdx]
       IN  \E exists \in BOOLEAN :
             IF ~exists
             THEN ApplicantRaise(Err("FileNotFoundError", "load_file", file_path))
             ELSE IF SuffixLower(file_path) # ".pdf"
                  THEN ApplicantRaise(Err("ValueError", "load_file", file_path))
                  ELSE pcA' = "upload" /\ pending' = pending
    /\ UNCHANGED << aRes, curIdx, gemini_files, cur, elapsed, statusQueries,
                    uploaded_files, genLog, remote, nextId, deleteCalls,
                    returnedIds >>
    /\ UNCHANGED << ready, mainVars, companyVars, inputVars, fnVars, saves >>

\* _upload_to_gemini: genai_client.files.upload
A_Upload ==
    /\ pcA = "upload"
    /\ CanRunA
    /\ \E raised \in BOOLEAN :
         IF raised
         THEN /\ ApplicantRaise(Err("UploadError", "files.upload", Basename(docs[curIdx])))
              /\ UNCHANGED << cur, elapsed, statusQueries, remote, nextId, deleteCalls >>
         ELSE \E st \in States :
              /\ cur' = [name |-> nextId, state |-> st]
              /\ nextId' = nextId + 1
              /\ remote' = remote \cup { nextId }
              /\ deleteCalls' = Append(deleteCalls, 0)
              /\ elapsed' = 0
              /\ statusQueries' = 0
              /\ pcA' = "poll"
              /\ pending' = pending
    /\ UNCHANGED << aRes, curIdx, gemini_files, uploaded_files, genLog, returnedIds >>
    /\ UNCHANGED << ready, mainVars, companyVars, inputVars, fnVars, saves >>

\* PollCond that keeps waiting on every state but ACTIVE
PollCond_UntilActive(state, el) == state # "ACTIVE" /\ el < max_wait_seconds

\* the condition of the wait loop (wait_for_processing is always True)
PollCond(state, el) == state = "PROCESSING" /\ el < max_wait_seconds

\* _upload_to_gemini: one iteration of the wait loop
A_Poll ==
    /\ pcA = "poll"
    /\ CanRunA
    /\ PollCond(cur.state, elapsed)
    /\ elapsed' = elapsed + 2
    /\ statusQueries' = statusQueries + 1
    /\ \E raised \in BOOLEAN :
         IF raised
         THEN /\ ApplicantRaise(Err("StatusError", "files.get", Basename(docs[curIdx])))
              /\ cur' = cur
         ELSE \E st \in States :
              /\ cur' = [cur EXCEPT !.state = st]
              /\ UNCHANGED << pcA, pending >>
    /\ UNCHANGED << aRes, curIdx, gemini_files, uploaded_files, genLog, remote,
                    nextId, deleteCalls, returnedIds >>
    /\ UNCHANGED << ready, mainVars, companyVars, inputVars, fnVars, saves >>

\* _upload_to_gemini returns the GeminiFile; load_from_s3 hands it to
\* analyze_pdf (self._uploaded_file), load_files appends it to gemini_files
\* and hands the list to analyze_local_pdfs after the last document
A_UploadReturn ==
    /\ pcA = "poll"
    /\ CanRunA
    /\ ~PollCond(cur.state, elapsed)
    /\ LET h == Handle(cur.name, Basename(docs[curIdx]), cur.state)
       IN  IF entry = "full"
           THEN /\ uploaded_files' = << h >>
                /\ returnedIds' = returnedIds \cup { h.name }
                /\ gemini_files' = << h >>
                /\ pcA' = "check"
                /\ curIdx' = curIdx
           ELSE /\ gemini_files' = Append(gemini_files, h)
                /\ IF curIdx = Len(docs)
                   THEN /\ uploaded_files' = Append(gemini_files, h)
                        /\ returnedIds' = returnedIds \cup Ids(Append(gemini_files, h))
                        /\ pcA' = "check"
                        /\ curIdx' = curIdx
                   ELSE /\ curIdx' = curIdx + 1
                        /\ pcA' = "load"
                        /\ UNCHANGED << uploaded_files, returnedIds >>
    /\ UNCHANGED << aRes, cur, elapsed, statusQueries, pending, genLog, remote,
                    nextId, deleteCalls >>
    /\ UNCHANGED << ready, mainVars, companyVars, inputVars, fnVars, saves >>

\* index of the first handle whose state is not ACTIVE, 0 when all are
RECURSIVE FirstNotActiveFrom(_, _)
FirstNotActiveFrom(files, i) ==
    IF i > Len(files) THEN 0
    ELSE IF files[i].state # "ACTIVE" THEN i
    ELSE FirstNotActiveFrom(files, i + 1)

FirstNotActive(files) == FirstNotActiveFrom(files, 1)

\* the document named by the state error: analyze_local_pdfs puts
\* display_name in the message, analyze_pdf only the state
StateErrorDoc(mode, h) == IF mode = "local" THEN h.display_name ELSE NONE

\* the state check that follows the upload
A_CheckState ==
    /\ pcA = "check"
    /\ CanRunA
    /\ LET bad == FirstNotActive(uploaded_files)
       IN  IF bad # 0
           THEN ApplicantRaise([status |-> "err", kind |-> "Exception",
                                src |-> "analyze:state",
                                doc |-> StateErrorDoc(entry, uploaded_files[bad]),
                                state |-> uploaded_files[bad].state])
           ELSE pcA' = "generate" /\ pending' = pending
    /\ UNCHANGED << aRes, curIdx, gemini_files, cur, elapsed, statusQueries,
                    uploaded_files, genLog, remote, nextId, deleteCalls,
                    returnedIds >>
    /\ UNCHANGED << ready, mainVars, companyVars, inputVars, fnVars, saves >>

\* client.models.generate_content with every handle attached, then the
\* fence stripping and json.loads
A_Generate ==
    /\ pcA = "generate"
    /\ CanRunA
    /\ genLog' = Append(genLog, uploaded_files)
    /\ \E r \in LLMOutcomes :
        CASE r = "raise" ->
                ApplicantRaise(Err("ProviderError", "generate_content", NONE))
          [] r = "malformed" ->
                ApplicantRaise(Err("JSONDecodeError", "json.loads", NONE))
          [] r = "json" ->
                /\ pending' = Ok
                /\ pcA' = "finally"
    /\ UNCHANGED << aRes, curIdx, gemini_files, cur, elapsed, statusQueries,
                    uploaded_files, remote, nextId, deleteCalls, returnedIds >>
    /\ UNCHANGED << ready, mainVars, companyVars, inputVars, fnVars, saves >>

\* ReleaseList of a cleanup that only runs after a successful extraction
ReleaseList_OnlyOnSuccess(files, pend) == IF pend.status = "err" THEN << >> ELSE files

\* the handles the finally clause passes to delete_file / delete_files
ReleaseList(files, pend) == files

\* number of entries of files that carry id
Occurrences(files, id) == Cardinality({ i \in 1..Len(files) : files[i].name = id })

\* the finally clause: delete every handle of self._uploaded_file(s), each
\* delete may fail on the remote side (delete_file then returns False)
A_Finally ==
    /\ pcA = "finally"
    /\ CanRunA
    /\ LET rel == ReleaseList(uploaded_files, pending)
       IN  /\ deleteCalls' = [id \in DOMAIN deleteCalls |->
                                deleteCalls[id] + Occurrences(rel, id)]
           /\ \E deleted \in SUBSET Ids(rel) : remote' = remote \ deleted
    /\ uploaded_files' = << >>
    /\ IF pending.status = "err"
       THEN ApplicantEnd(pending)
       ELSE /\ pcA' = "post"
            /\ UNCHANGED << aRes, ready >>
    /\ UNCHANGED << curIdx, gemini_files, cur, elapsed, statusQueries, pending,
                    genLog, nextId, returnedIds >>
    /\ UNCHANGED << mainVars, companyVars, inputVars, fnVars, saves >>

\* run_from_s3 / run_from_local_pdfs after the analysis returned: attach
\* _source, save when save_to_db
A_Post ==
    /\ pcA = "post"
    /\ CanRunA
    /\ IF save_to_db
       THEN /\ saves' = Append(saves, "applicant")
            /\ \E saved \in BOOLEAN :
                 IF saved
                 THEN ApplicantEnd(Ok)
                 ELSE ApplicantEnd(Err("PyMongoError", "save_applicant_profile", NONE))
       ELSE /\ saves' = saves
            /\ ApplicantEnd(Ok)
    /\ UNCHANGED << curIdx, gemini_files, cur, elapsed, statusQueries,
                    uploaded_files, pending, genLog, remote, nextId,
                    deleteCalls, returnedIds >>
    /\ UNCHANGED << mainVars, companyVars, inputVars, fnVars >>

(***************************************************************************)
(* run_full_analysis                                                       *)
(***************************************************************************)
\* GatherDone of a gather without return_exceptions: the first exception
\* completes it
GatherDone_FailFast(c, a) ==
    \/ Terminal(c) /\ Terminal(a)
    \/ c.status = "err"
    \/ a.status = "err"

\* asyncio.gather(..., return_exceptions=True) completes
GatherDone(c, a) == Terminal(c) /\ Terminal(a)

\* GatherError that forgets to look at the applicant slot
GatherError_CompanyOnly(c, a) == IF c.status = "err" THEN c ELSE Ok

\* GatherError that looks at the applicant slot first
GatherError_ApplicantFirst(c, a) ==
    IF a.status = "err" THEN a
    ELSE IF c.status = "err" THEN c
    ELSE Ok

\* the error check after gather: the exception to raise, Ok when none
GatherError(c, a) ==
    IF c.status = "err" THEN c
    ELSE IF a.status = "err" THEN a
    ELSE Ok

\* gather returned: raise the first exception in argument order, else go on
M_AfterGather ==
    /\ pcM = "gather"
    /\ GatherDone(cRes, aRes)
    /\ ~CanRunA
    /\ LET e == GatherError(cRes, aRes)
       IN  IF e.status = "err"
           THEN outcome' = e /\ pcM' = "finally"
           ELSE outcome' = outcome /\ pcM' = "compare"
    /\ UNCHANGED << compareCalls, closed >>
    /\ UNCHANGED << ready, companyVars, applicantVars, inputVars, fnVars, saves >>

\* step 2: the comparison stage, one provider call and its extraction.
\* pipeline.py imports CultureFitCompareChain, a class the repository
\* sources do not define (compare_chain.py defines CultureCompareChain, whose
\* run takes other keyword names); the stage follows section 4.5 of the
\* specification: it is fed both records and returns a record or raises.
M_Compare ==
    /\ pcM = "compare"
    /\ compareCalls' = compareCalls + 1
    /\ \E r \in LLMOutcomes :
        CASE r = "raise" -> outcome' = Err("ProviderError", "compare:ainvoke", NONE)
          [] r = "malformed" -> outcome' = Err("JSONDecodeError", "compare:parse", NONE)
          [] r = "json" -> outcome' = Ok
    /\ pcM' = "finally"
    /\ UNCHANGED closed
    /\ UNCHANGED << ready, companyVars, applicantVars, inputVars, fnVars, saves >>

\* close() of a chain closes its DatabaseHandler, which exists only with
\* save_to_db; closing the connection may raise
CloseOutcomes(with_db) == IF with_db THEN { "closed", "raise" } ELSE { "closed" }

\* the finally clause: company_chain.close() then applicant_chain.close(),
\* one statement after the other; an exception of a close leaves the clause
\* and is what the caller sees
M_Finally ==
    /\ pcM = "finally"
    /\ \E c1 \in CloseOutcomes(save_to_db), c2 \in CloseOutcomes(save_to_db) :
         IF c1 = "raise"
         THEN /\ closed' = closed \o << "company" >>
              /\ outcome' = Err("PyMongoError", "company_chain.close", NONE)
         ELSE /\ closed' = closed \o << "company", "applicant" >>
              /\ outcome' = IF c2 = "raise"
                            THEN Err("PyMongoError", "applicant_chain.close", NONE)
                            ELSE outcome
    /\ pcM' = "done"
    /\ UNCHANGED compareCalls
    /\ UNCHANGED << ready, companyVars, applicantVars, inputVars, fnVars, saves >>

Next ==
    \/ C_Start
    \/ C_ScrapePrimary
    \/ C_CloseUnsupported
    \/ C_ScrapeAdditional
    \/ C_CloseScraper
    \/ C_CollectData
    \/ C_AnalyzeCulture
    \/ A_Download
    \/ A_LoadFile
    \/ A_Upload
    \/ A_Poll
    \/ A_UploadReturn
    \/ A_CheckState
    \/ A_Generate
    \/ A_Finally
    \/ A_Post
    \/ M_AfterGather
    \/ M_Compare
    \/ M_Finally

Spec == Init /\ [][Next]_vars

TypeOK ==
    /\ entry \in { "full", "local" }
    /\ save_to_db \in BOOLEAN
    /\ pcM \in { "idle", "gather", "compare", "finally", "done" }
    /\ elapsed \in 0..max_wait_seconds + 1
    /\ browser \in { "none", "running" }
    /\ Len(deleteCalls) = nextId - 1

(***************************************************************************)
(* Properties                                                              *)
(***************************************************************************)
Full == entry = "full"
AnalysisExited == pcA \in { "post", "done" }
UploadedIds == 1..(nextId - 1)
ScrapingOver == pcC \in { "collect", "analyze", "done" }
PrimaryFetched == all_contents # << >>
FetchedUrls == [i \in 1..Len(fetchLog) |-> fetchLog[i].url]

\* C1: when exactly one of the two branches of run_full_analysis raised and
\* the other completed, the call fails, returns no result and no
\* persistence call was made during the run.
C1_AllOrNothing ==
    ( /\ Full
      /\ pcM = "done"
      /\ \/ cRes.status = "err" /\ aRes.status = "ok"
         \/ cRes.status = "ok" /\ aRes.status = "err" )
    => ( outcome.status = "err" /\ saves = << >> )

\* C2: the comparison stage is invoked only after both branches terminated
\* successfully; when either branch failed it is never invoked.
C2_CompareOnlyAfterBothSucceeded ==
    ( pcM = "compare" \/ compareCalls > 0 )
    => ( cRes.status = "ok" /\ aRes.status = "ok" )

C2_Witness ==
    /\ compareCalls = 1
    /\ pcM = "done"
    /\ cRes.status = "ok"
    /\ aRes.status = "ok"

C4_NoLeakedHandle ==
    AnalysisExited => \A id \in UploadedIds : deleteCalls[id] >= 1

NotActive(files) == { i \in 1..Len(files) : files[i].state # "ACTIVE" }

\* C5: the provider is never called with a handle that is not ACTIVE; when
\* a document ended upload/polling PROCESSING or FAILED the analysis raises
\* the state error naming an offending document, makes no provider call,
\* and every handle obtained so far is released.
C5_FailFastOnUnusableHandle ==
    /\ \A c \in 1..Len(genLog) : NotActive(genLog[c]) = { }
    /\ ( pcA = "done" /\ NotActive(gemini_files) # { } )
       => /\ aRes.status = "err"
          /\ aRes.src = "analyze:state"
          /\ \E i \in NotActive(gemini_files) : aRes.doc = gemini_files[i].display_name
          /\ genLog = << >>
          /\ \A i \in 1..Len(gemini_files) : deleteCalls[gemini_files[i].name] >= 1

\* C6: the error of run_full_analysis reaches the caller only after both
\* branches reached a terminal state; the main coroutine never moves past
\* gather while a branch is still running.
C6_BothBranchesFinish ==
    ( Full /\ pcM \in { "compare", "finally", "done" } )
    => ( Terminal(cRes) /\ Terminal(aRes) /\ pcC = "done" /\ pcA = "done" )

C6_Witness ==
    /\ pcM = "done"
    /\ outcome.status = "err"
    /\ aRes.status = "err"
    /\ cRes.status = "ok"
    /\ llmCalls = 2

\* an exception of a close in the finally clause took the place of the
\* result of the try block
CloseRaised ==
    /\ outcome.status = "err"
    /\ outcome.src \in { "company_chain.close", "applicant_chain.close" }

C8_FailFastOnUnknownOrganization ==
    ( PrimaryFetched /\ match_company(job_content) = NONE )
    => /\ FetchedUrls = << company_url >>
       /\ llmCalls = 0
       /\ pcC \in { "close_unsupported", "done" }
       /\ pcC = "done" => /\ cRes.status = "err"
                          /\ cRes.kind = "UnsupportedCompanyError"
                          /\ cRes.lists = << "HyundaiAutoever", "Upstage", "Toss" >>

C8_Witness ==
    /\ pcC = "done"
    /\ job_content = << "k", "a", "k", "a", "o" >>
    /\ cRes.status = "err"
    /\ cRes.kind = "UnsupportedCompanyError"

\* C9: a failed supplementary fetch does not abort the run, and the
\* combined text has one section per fetched URL, a failure marker for
\* every URL whose fetch failed.
C9_FailureMarkersRecorded ==
    ( PrimaryFetched /\ company_name # NONE )
    => /\ pcC = "done" => cRes.status = "ok" \/ cRes.src # "CompanyAnalysisChain.run:scrape"
       /\ Len(all_contents) = Len(fetchLog)
       /\ \A i \in 1..Len(fetchLog) :
            /\ all_contents[i].url = fetchLog[i].url
            /\ ~fetchLog[i].success => all_contents[i].kind = "failed"

\* the fetches the sub-pipeline is to make for a matched organization
ExpectedFetches(org) ==
    << company_url >> \o
    ( CASE org = "HyundaiAutoever" ->
              << "https://career.hyundai-autoever.com/ko/people",
                 "https://career.hyundai-autoever.com/ko/life",
                 "https://career.hyundai-autoever.com/ko/embeddedsw" >>
        [] org = "Upstage" ->
              << "https://www.upstage.ai/about", "https://www.upstage.ai/careers" >>
        [] org = "Toss" ->
              << "https://toss.im/career/culture",
                 "https://toss.im/career/community/toss" >> )

\* C10: for a job posting that matches an organization with k
\* supplementary URLs the sub-pipeline fetches the primary URL and then
\* each supplementary URL once in declared order, 1 + k fetches whatever
\* the individual outcomes; 3 fetches for Toss matched by alias "toss".
C10_FetchCount ==
    ( PrimaryFetched /\ company_name # NONE )
    => LET expected == ExpectedFetches(company_name)
       IN  /\ Len(fetchLog) <= Len(expected)
           /\ \A i \in 1..Len(fetchLog) : fetchLog[i].url = expected[i]
           /\ ~ScrapingOver => pcC = "scrape_more"
           /\ ScrapingOver => FetchedUrls = expected
           /\ ( ScrapingOver /\ Contains(Lower(job_content), << "t", "o", "s", "s" >>)
                /\ company_name = "Toss" ) => Len(fetchLog) = 3

C10_Witness ==
    /\ pcC = "done"
    /\ cRes.status = "ok"
    /\ job_content = << "j", "o", "i", "n", " ", "t", "o", "s", "s" >>
    /\ company_name = "Toss"
    /\ Len(fetchLog) = 3
    /\ ~fetchLog[2].success
    /\ ~fetchLog[3].success

(***************************************************************************)
(* match_company exercised on its own (config.py)                          *)
(***************************************************************************)
MaxWords == 2

\* words a page text is made of
MatchWords ==
    { <<"t","o","s","s">>, <<"T","O","S","S">>, <<"T","o","s","s">>,
      <<"t","o","s">>, <<"j","o","i","n">>,
      <<"u","p","s","t","a","g","e">>, <<"U","p","S","t","a","g","e">>,
      <<"a","u","t","o","e","v","e","r">>, <<"A","U","T","O","E","V","E","R">>,
      <<"v","i","v","a">>, <<"R","e","p","u","b","l","i","c","a">>,
      <<"k","a","k","a","o">>, <<"ko:to","ko:seu">> }

\* " ".join(words)
RECURSIVE Join(_)
Join(words) ==
    IF words = << >> THEN << >>
    ELSE IF Len(words) = 1 THEN words[1]
    ELSE words[1] \o << " " >> \o Join(Tail(words))

MatchTexts == { Join(ws) : ws \in SeqsUpTo(MatchWords, MaxWords) \ { << >> } }

CaseVariants(text) == { text, Lower(text), Upper(text), SwapCase(text) }

InitMatch ==
    /\ NoPipeline
    /\ call = "match_company"
    /\ arg \in MatchTexts
    /\ ret = "unset"

\* company_name = match_company(text)
Match_Call ==
    /\ call = "match_company"
    /\ ret = "unset"
    /\ ret' = match_company(arg)
    /\ UNCHANGED << call, arg, pipelineVars >>

SpecMatch == InitMatch /\ [][Match_Call]_vars

\* organization i has an alias whose lower-cased form occurs in Lower(text)
HasAlias(text, i) ==
    \E k \in 1..Len(COMPANY_KEYWORDS[i].keywords) :
        Contains(Lower(text), Lower(COMPANY_KEYWORDS[i].keywords[k]))

Matching(text) == { i \in 1..Len(COMPANY_KEYWORDS) : HasAlias(text, i) }

Matched == call = "match_company" /\ ret # "unset"

\* C11: match_company answers the same organization for every case variant
\* of a text; it answers an organization exactly when the lower-cased text
\* contains the lower-cased form of at least one alias, and the organization
\* answered is one whose alias occurs.
C11_CaseInsensitive ==
    Matched =>
        /\ \A v \in CaseVariants(arg) : match_company(v) = ret
        /\ (ret # NONE) <=> (Matching(arg) # { })
        /\ \A i \in 1..Len(COMPANY_KEYWORDS) :
               ret = COMPANY_KEYWORDS[i].company => HasAlias(arg, i)

C11_Witness ==
    /\ Matched
    /\ ret = "Toss"
    /\ arg # Lower(arg)
    /\ arg # Upper(arg)

\* C12: when aliases of several organizations occur in one text,
\* match_company answers the one declared first in COMPANY_KEYWORDS,
\* wherever and however often the aliases occur; it answers none exactly
\* when no alias occurs.
C12_FirstDeclaredWins ==
    Matched =>
        IF Matching(arg) = { }
        THEN ret = NONE
        ELSE \E i \in Matching(arg) :
                /\ \A j \in Matching(arg) : i <= j
                /\ ret = SUPPORTED_COMPANIES[i]

\* a later-declared organization's alias comes first in the text
C12_Witness ==
    /\ Matched
    /\ Cardinality(Matching(arg)) >= 2
    /\ Contains(Lower(arg), <<"t","o","s","s"," ">>)
    /\ ret # "Toss"

(***************************************************************************)
(* JSON text.  A value is a record: t is its type, s the characters of a   *)
(* string, n the number, items the pairs << key, value >> of an object or   *)
(* the elements of an array.                                               *)
(***************************************************************************)
JObj(items) == [t |-> "obj", s |-> << >>, n |-> 0, items |-> items]
JArr(items) == [t |-> "arr", s |-> << >>, n |-> 0, items |-> items]
JStr(chars) == [t |-> "str", s |-> chars, n |-> 0, items |-> << >>]
JNum(k)     == [t |-> "num", s |-> << >>, n |-> k, items |-> << >>]
JNull       == [t |-> "null", s |-> << >>, n |-> 0, items |-> << >>]
NoValue     == [t |-> "none", s |-> << >>, n |-> 0, items |-> << >>]

Quote == "\""
Digits == << "0", "1", "2", "3", "4", "5", "6", "7", "8", "9" >>
IsDigit(c) == IndexOf(Digits, c) # 0
\* the characters str.strip(), \s and the json scanner treat as whitespace
IsWs(c) == c \in { " ", "\n" }

Min(S) == CHOOSE x \in S : \A y \in S : x <= y
Max(S) == CHOOSE x \in S : \A y \in S : y <= x

\* s[i:i+1] at the 1-based position i: "" past the end
At(s, i) == IF i \in 1..Len(s) THEN s[i] ELSE ""

\* first position >= start where pat begins, 0 when there is none
Find(s, pat, start) ==
    LET hits == { i \in start..(Len(s) - Len(pat) + 1) :
                    SubSeq(s, i, i + Len(pat) - 1) = pat }
    IN  IF hits = { } THEN 0 ELSE Min(hits)

\* first position >= i that holds no whitespace, Len(s) + 1 when none does
SkipWs(s, i) ==
    LET rest == { j \in i..Len(s) : ~IsWs(s[j]) }
    IN  IF rest = { } THEN Len(s) + 1 ELSE Min(rest)

\* str.strip()
Strip(s) ==
    LET keep == { j \in 1..Len(s) : ~IsWs(s[j]) }
    IN  IF keep = { } THEN << >> ELSE SubSeq(s, Min(keep), Max(keep))

\* str(k) and int(digits) for naturals
RECURSIVE NatToText(_)
NatToText(k) ==
    IF k < 10 THEN << Digits[k + 1] >>
    ELSE NatToText(k \div 10) \o << Digits[(k % 10) + 1] >>

RECURSIVE TextToNat(_)
TextToNat(ds) ==
    IF ds = << >> THEN 0
    ELSE 10 * TextToNat(SubSeq(ds, 1, Len(ds) - 1)) + (IndexOf(Digits, ds[Len(ds)]) - 1)

\* json.dumps(value)
RECURSIVE Dumps(_)
RECURSIVE DumpItems(_, _)
DumpItems(items, is_obj) ==
    IF items = << >> THEN << >>
    ELSE LET one == IF is_obj
                    THEN << Quote >> \o items[1][1] \o << Quote, ":", " " >> \o Dumps(items[1][2])
                    ELSE Dumps(items[1])
         IN  IF Len(items) = 1 THEN one
             ELSE one \o << ",", " " >> \o DumpItems(Tail(items), is_obj)

Dumps(v) ==
    CASE v.t = "obj" -> << "{" >> \o DumpItems(v.items, TRUE) \o << "}" >>
      [] v.t = "arr" -> << "[" >> \o DumpItems(v.items, FALSE) \o << "]" >>
      [] v.t = "str" -> << Quote >> \o v.s \o << Quote >>
      [] v.t = "num" -> NatToText(v.n)
      [] OTHER -> << "n", "u", "l", "l" >>

\* the scanner found no value
ScanFail == [ok |-> FALSE, val |-> NoValue, end |-> 0]
Scanned(v, end) == [ok |-> TRUE, val |-> v, end |-> end]

\* json.decoder.scanstring from the opening quote at i; a raw line break
\* inside a string is an invalid control character
ScanString(s, i) ==
    LET j == Find(s, << Quote >>, i + 1)
    IN  IF j = 0 \/ \E k \in (i + 1)..(j - 1) : s[k] = "\n"
        THEN ScanFail
        ELSE Scanned(JStr(SubSeq(s, i + 1, j - 1)), j + 1)

\* NUMBER_RE at i, integers only
ScanNumber(s, i) ==
    LET stop == { j \in i..Len(s) : ~IsDigit(s[j]) }
        end == IF stop = { } THEN Len(s) + 1 ELSE Min(stop)
        first0 == s[i] = "0"
    IN  IF first0 THEN Scanned(JNum(0), i + 1)
        ELSE Scanned(JNum(TextToNat(SubSeq(s, i, end - 1))), end)

\* json.scanner scan_once, JSONObject and JSONArray
RECURSIVE ScanOnce(_, _)
RECURSIVE ScanMembers(_, _, _)
RECURSIVE ScanElements(_, _, _)
ScanMembers(s, i, acc) ==
    LET key == ScanString(s, i)
    IN  IF ~key.ok THEN ScanFail
        ELSE LET colon == SkipWs(s, key.end)
             IN  IF At(s, colon) # ":" THEN ScanFail
                 ELSE LET v == ScanOnce(s, SkipWs(s, colon + 1))
                      IN  IF ~v.ok THEN ScanFail
                          ELSE LET d == SkipWs(s, v.end)
                                   acc2 == Append(acc, << key.val.s, v.val >>)
                               IN  IF At(s, d) = "}" THEN Scanned(JObj(acc2), d + 1)
                                   ELSE IF At(s, d) # "," THEN ScanFail
                                   ELSE LET nxt == SkipWs(s, d + 1)
                                        IN  IF At(s, nxt) # Quote THEN ScanFail
                                            ELSE ScanMembers(s, nxt, acc2)

ScanElements(s, i, acc) ==
    LET v == ScanOnce(s, i)
    IN  IF ~v.ok THEN ScanFail
        ELSE LET d == SkipWs(s, v.end)
                 acc2 == Append(acc, v.val)
             IN  IF At(s, d) = "]" THEN Scanned(JArr(acc2), d + 1)
                 ELSE IF At(s, d) # "," THEN ScanFail
                 ELSE ScanElements(s, SkipWs(s, d + 1), acc2)

ScanOnce(s, i) ==
    LET c == At(s, i)
    IN  CASE c = Quote -> ScanString(s, i)
          [] c = "{" ->
               LET j == SkipWs(s, i + 1)
               IN  IF At(s, j) = "}" THEN Scanned(JObj(<< >>), j + 1)
                   ELSE IF At(s, j) # Quote THEN ScanFail
                   ELSE ScanMembers(s, j, << >>)
          [] c = "[" ->
               LET j == SkipWs(s, i + 1)
               IN  IF At(s, j) = "]" THEN Scanned(JArr(<< >>), j + 1)
                   ELSE ScanElements(s, j, << >>)
          [] c = "n" /\ i + 3 <= Len(s) /\ SubSeq(s, i, i + 3) = << "n", "u", "l", "l" >> ->
               Scanned(JNull, i + 4)
          [] IsDigit(c) -> ScanNumber(s, i)
          [] OTHER -> ScanFail

\* what an extractor gives: the parsed value, or an exception
Parsed(v) == [ok |-> TRUE, val |-> v]
ParseError == [ok |-> FALSE, val |-> NoValue]

\* JSONDecoder.raw_decode(text): the first value, scanned from index 0
\* without skipping whitespace; what follows it is ignored
raw_decode(text) ==
    LET r == ScanOnce(text, 1) IN IF r.ok THEN Parsed(r.val) ELSE ParseError

\* json.loads(text): whitespace, one value, whitespace, end of text
json_loads(text) ==
    LET r == ScanOnce(text, SkipWs(text, 1))
    IN  IF r.ok /\ SkipWs(text, r.end) = Len(text) + 1 THEN Parsed(r.val) ELSE ParseError

(***************************************************************************)
(* The output extractors: parse_json_with_markdown of company_chain.py,    *)
(* parse_json_with_markdown of compare_chain.py, and the inline extraction *)
(* of analyze_pdf / analyze_local_pdfs.                                    *)
(***************************************************************************)
\* the backtick character is written "bt"
Fence == << "bt", "bt", "bt" >>
JsonFence == Fence \o << "j", "s", "o", "n" >>

\* re.search(open \s*(.*?)\s* fence, text, re.DOTALL): the match starts at the
\* first occurrence of open and needs a fence after it; group(1) runs from
\* the first non-blank character to the last non-blank character before
\* the first such fence
FenceSearch(text, open) ==
    LET p == Find(text, open, 1)
        q == IF p = 0 THEN 0 ELSE Find(text, Fence, p + Len(open))
    IN  IF q = 0 THEN [match |-> FALSE, group |-> << >>]
        ELSE LET a == SkipWs(text, p + Len(open))
                 e == Max({ a - 1 } \cup { j \in a..(q - 1) : ~IsWs(text[j]) })
             IN  [match |-> TRUE, group |-> SubSeq(text, a, e)]

\* the fence branch shared by the two parse_json_with_markdown functions
StripFence(text) ==
    IF Contains(text, JsonFence)
    THEN LET m == FenceSearch(text, JsonFence) IN IF m.match THEN m.group ELSE text
    ELSE IF Contains(text, Fence)
    THEN LET m == FenceSearch(text, Fence) IN IF m.match THEN m.group ELSE text
    ELSE text

\* company_chain.parse_json_with_markdown
parse_company(raw) == json_loads(StripFence(Strip(raw)))

\* compare_chain.parse_json_with_markdown: text after the fence branch
compare_text(raw) == StripFence(Strip(raw))

\* text.find of the opening brace as a 1-based position, 0 for -1
first_brace(text) == Find(text, << "{" >>, 1)

\* compare_chain.parse_json_with_markdown
parse_compare(raw) ==
    LET text == compare_text(raw)
        fb == first_brace(text)
    IN  raw_decode(IF fb # 0 THEN SubSeq(text, fb, Len(text)) ELSE text)

\* text[start:end] with Python's 0-based bounds, end possibly negative
PySlice(text, start, end) ==
    LET stop == IF end < 0 THEN Max({ 0, end + Len(text) }) ELSE Min({ end, Len(text) })
    IN  IF start >= stop THEN << >> ELSE SubSeq(text, start + 1, stop)

\* text.find(pat, start) with Python's 0-based positions, -1 when absent
PyFind(text, pat, start) == Find(text, pat, start + 1) - 1

\* response_text[start:end].strip() after an opening fence
CutFence(text, open) ==
    LET start == PyFind(text, open, 0) + Len(open)
        end == PyFind(text, Fence, start)
    IN  Strip(PySlice(text, start, end))

\* the extraction at the end of analyze_pdf and analyze_local_pdfs
parse_applicant(raw) ==
    json_loads(IF Contains(raw, JsonFence) THEN CutFence(raw, JsonFence)
               ELSE IF Contains(raw, Fence) THEN CutFence(raw, Fence)
               ELSE raw)

(***************************************************************************)
(* The extractors exercised on provider output                             *)
(***************************************************************************)
MaxNest == 1

\* values without an object inside
JsonAtoms ==
    { JNum(12), JStr(<< "x" >>), JStr(<< "}" >>), JStr(Fence), JArr(<< JNum(1) >>) }

\* values whose objects nest at most d deep
RECURSIVE JsonValues(_)
JsonValues(d) ==
    IF d = 0 THEN JsonAtoms
    ELSE LET inner == JsonValues(d - 1)
         IN  JsonAtoms
             \cup { JObj(<< >>) }
             \cup { JObj(<< << << "a" >>, v >> >>) : v \in inner }
             \cup { JObj(<< << << "a" >>, JNum(1) >>, << << "b" >>, v >> >>) : v \in inner }

JsonObjects == { v \in JsonValues(MaxNest) : v.t = "obj" }

\* provider output that is no JSON object: other values, truncated text
OtherBodies ==
    { Dumps(v) : v \in JsonAtoms }
    \cup { << "n", "u", "l", "l" >>,
           << "{", Quote, "a", Quote, ":", " " >>,
           << "{", Quote, "a", Quote, ":", " ", "1", ",", "}" >> }

Wrappings == { "json", "plain", "none" }

\* text before and after the (possibly fenced) body
Leading == { << >>, << "\n" >>, << "o", "k", ":", " " >>, << "{", "x", "}", " " >> }
Trailing == { << >>, << "\n" >>, << " ", "o", "k" >> }

Wrap(wrapping, body) ==
    CASE wrapping = "json" -> JsonFence \o << "\n" >> \o body \o << "\n" >> \o Fence
      [] wrapping = "plain" -> Fence \o << "\n" >> \o body \o << "\n" >> \o Fence
      [] OTHER -> body

\* response.text / the message content
RawText(a) == a.pre \o Wrap(a.wrapping, a.body) \o a.post

ProviderOutputs ==
    { [val |-> v, body |-> Dumps(v), wrapping |-> w, pre |-> l, post |-> t] :
        v \in JsonObjects, w \in Wrappings, l \in Leading, t \in Trailing }
    \cup
    { [val |-> NoValue, body |-> b, wrapping |-> w, pre |-> l, post |-> t] :
        b \in OtherBodies, w \in Wrappings, l \in Leading, t \in Trailing }

ParseCalls == { "parse_company", "parse_compare", "parse_applicant" }
Unparsed == [done |-> FALSE, ok |-> FALSE, val |-> NoValue]
Returned(r) == [done |-> TRUE, ok |-> r.ok, val |-> r.val]

InitExtract ==
    /\ NoPipeline
    /\ call \in ParseCalls
    /\ arg \in ProviderOutputs
    /\ ret = Unparsed

\* the extraction / scoring steps of CompanyAnalysisChain
Extract_Company ==
    /\ call = "parse_company"
    /\ ~ret.done
    /\ ret' = Returned(parse_company(RawText(arg)))
    /\ UNCHANGED << call, arg, pipelineVars >>

\* the comparison step of CultureCompareChain
Extract_Compare ==
    /\ call = "parse_compare"
    /\ ~ret.done
    /\ ret' = Returned(parse_compare(RawText(arg)))
    /\ UNCHANGED << call, arg, pipelineVars >>

\* the end of analyze_pdf / analyze_local_pdfs
Extract_Applicant ==
    /\ call = "parse_applicant"
    /\ ~ret.done
    /\ ret' = Returned(parse_applicant(RawText(arg)))
    /\ UNCHANGED << call, arg, pipelineVars >>

NextExtract == Extract_Company \/ Extract_Compare \/ Extract_Applicant

SpecExtract == InitExtract /\ [][NextExtract]_vars

Extracted == call \in ParseCalls /\ ret.done
AllWs(text) == \A i \in 1..Len(text) : IsWs(text[i])
ReturnedObject == ret.ok /\ ret.val = arg.val

\* C13: for every JSON object J and each of the three wrappings (json
\* fence, plain fence, no fence), with only whitespace around it, the
\* extractor of every stage returns a value equal to J.
C13_FenceTransparency ==
    ( Extracted /\ arg.val.t = "obj" /\ AllWs(arg.pre) /\ AllWs(arg.post) )
    => ReturnedObject

\* C14: a JSON object followed by trailing text that is not JSON is
\* returned by the extractor of every stage, which does not fail.  (Stated
\* for objects whose text holds no fence.)
C14_TrailingTextIgnored ==
    ( /\ Extracted
      /\ arg.val.t = "obj"
      /\ ~Contains(arg.body, Fence)
      /\ arg.pre = << >>
      /\ ~AllWs(arg.post) )
    => ReturnedObject

\* C15: the comparison extractor returns only the object that starts at
\* the first opening brace of the text left by fence stripping and
\* trimming; without a brace, or without a well-formed object at the first
\* brace, it fails and returns no value.
C15_FirstBraceRule ==
    ( Extracted /\ call = "parse_compare" )
    => LET text == compare_text(RawText(arg))
           fb == first_brace(text)
           at_brace == ScanOnce(text, fb)
       IN  IF fb # 0 /\ at_brace.ok /\ at_brace.val.t = "obj"
           THEN ret.ok /\ ret.val = at_brace.val
           ELSE ~ret.ok

(***************************************************************************)
(* The wait loop of _upload_to_gemini                                      *)
(***************************************************************************)
\* a files.get call is made by this step
Queried == statusQueries' > statusQueries
\* _upload_to_gemini returns its GeminiFile in this step
UploadReturned == pcA = "poll" /\ pcA' # "poll" /\ pending' = pending
Budget == (max_wait_seconds + 1) \div 2

\* C16: the status is queried only while the last observed state is
\* PROCESSING and the budget is not exhausted; at most Budget queries are
\* made per upload; ACTIVE or FAILED stops polling at once; when the budget
\* runs out the upload returns a handle carrying the last observed state
\* (PROCESSING) and raises nothing.
C16_PollLoop ==
    /\ [](statusQueries <= Budget)
    /\ [][ /\ Queried => ( cur.state = "PROCESSING" /\ elapsed < max_wait_seconds )
           /\ ( pcA = "poll" /\ cur.state = "PROCESSING" /\ elapsed >= max_wait_seconds )
              => ( UploadReturned /\ gemini_files'[Len(gemini_files')].state = "PROCESSING" )
           /\ UploadReturned => gemini_files'[Len(gemini_files')].state = cur.state ]_vars

\* an upload timed out after Budget queries and its handle was returned
C16_Witness ==
    /\ pcA = "check"
    /\ statusQueries = Budget
    /\ elapsed >= max_wait_seconds
    /\ uploaded_files[Len(uploaded_files)].state = "PROCESSING"

(***************************************************************************)
(* scrape_multiple of BrowserScraper and JinaScraper                       *)
(***************************************************************************)
MaxUrls == 2

BatchUrls ==
    { << "h", "t", "t", "p", "s", ":", "/", "/", "a" >>,
      << "h", "t", "t", "p", ":", "/", "/", "b" >>,
      << "f", "t", "p", ":", "/", "/", "c" >>,
      << "i", "n", "v", "a", "l", "i", "d", "-", "u", "r", "l" >> }

\* str.startswith(prefix)
StartsWith(text, prefix) ==
    Len(text) >= Len(prefix) /\ SubSeq(text, 1, Len(prefix)) = prefix

\* any text with a scheme separator passes
validate_url_AnyScheme(url) == Contains(url, << ":", "/", "/" >>)

\* BaseScraper.validate_url
validate_url(url) ==
    \/ StartsWith(url, << "h", "t", "t", "p", ":", "/", "/" >>)
    \/ StartsWith(url, << "h", "t", "t", "p", "s", ":", "/", "/" >>)

ScrapeResult(url, content, success, error_message) ==
    [url |-> url, content |-> content, success |-> success,
     error_message |-> error_message]

Scrapers == { "BrowserScraper", "JinaScraper", "GeminiScraper" }

\* scrape_multiple has been called: results = [], the browser not started
\* calls lists the URLs handed to an external service (page.goto, the reader
\* proxy, the model)
BatchStart == [pc |-> "loop", results |-> << >>, _browser |-> "none", calls |-> << >>]

InitScrape ==
    /\ NoPipeline
    /\ call \in Scrapers
    /\ arg \in SeqsUpTo(BatchUrls, MaxUrls)
    /\ ret = BatchStart

\* the URL of the current iteration of the for loop
BatchUrl == arg[Len(ret.results) + 1]
InLoop == ret.pc = "loop" /\ Len(ret.results) < Len(arg)

\* what the body of BrowserScraper.scrape gives inside its try block
BrowserFetches(url) ==
    { ScrapeResult(url, "text", TRUE, NONE),
      ScrapeResult(url, "", FALSE, "navigation error"),
      ScrapeResult(url, "", FALSE, "Timeout 30000ms exceeded") }

\* one iteration with BrowserScraper.scrape: start() runs before the try
\* block, so a launch failure leaves scrape and scrape_multiple
Scrape_Browser ==
    /\ call = "BrowserScraper"
    /\ InLoop
    /\ \E launched \in IF ret._browser = "none" THEN BOOLEAN ELSE { TRUE } :
         IF ~launched
         THEN ret' = [ret EXCEPT !.pc = "raised"]
         ELSE \E r \in BrowserFetches(BatchUrl) :
                ret' = [ret EXCEPT !.results = Append(@, r), !._browser = "running",
                                   !.calls = Append(@, BatchUrl)]
    /\ UNCHANGED << call, arg, pipelineVars >>

\* what JinaScraper.scrape gives for a valid URL
JinaFetches(url) ==
    { ScrapeResult(url, "text", TRUE, NONE),
      ScrapeResult(url, "", FALSE, "timeout"),
      ScrapeResult(url, "", FALSE, "HTTP error"),
      ScrapeResult(url, "", FALSE, "str(e)") }

\* one iteration with JinaScraper.scrape
Scrape_Jina ==
    /\ call = "JinaScraper"
    /\ InLoop
    /\ IF ~validate_url(BatchUrl)
       THEN ret' = [ret EXCEPT !.results =
                        Append(@, ScrapeResult(BatchUrl, "", FALSE, "invalid URL"))]
       ELSE \E r \in JinaFetches(BatchUrl) :
                ret' = [ret EXCEPT !.results = Append(@, r), !.calls = Append(@, BatchUrl)]
    /\ UNCHANGED << call, arg, pipelineVars >>

\* what GeminiScraper.scrape gives for a valid URL
GeminiFetches(url) ==
    { ScrapeResult(url, "text", TRUE, NONE),
      ScrapeResult(url, "", FALSE, "str(e)") }

\* one iteration with GeminiScraper.scrape
Scrape_Gemini ==
    /\ call = "GeminiScraper"
    /\ InLoop
    /\ IF ~validate_url(BatchUrl)
       THEN ret' = [ret EXCEPT !.results =
                        Append(@, ScrapeResult(BatchUrl, "", FALSE, "invalid URL"))]
       ELSE \E r \in GeminiFetches(BatchUrl) :
                ret' = [ret EXCEPT !.results = Append(@, r), !.calls = Append(@, BatchUrl)]
    /\ UNCHANGED << call, arg, pipelineVars >>

\* return results
Scrape_Return ==
    /\ call \in Scrapers
    /\ ret.pc = "loop"
    /\ Len(ret.results) = Len(arg)
    /\ ret' = [ret EXCEPT !.pc = "returned"]
    /\ UNCHANGED << call, arg, pipelineVars >>

NextScrape == Scrape_Browser \/ Scrape_Jina \/ Scrape_Gemini \/ Scrape_Return

SpecScrape == InitScrape /\ [][NextScrape]_vars

BatchOver == call \in Scrapers /\ ret.pc # "loop"

\* C17: scrape_multiple returns one result per input URL in input order; a
\* URL whose fetch failed has success = FALSE, empty content and an error
\* message, and the batch is neither aborted nor cut short.
C17_BatchIsolation ==
    BatchOver =>
        /\ ret.pc = "returned"
        /\ Len(ret.results) = Len(arg)
        /\ \A i \in 1..Len(arg) :
              /\ ret.results[i].url = arg[i]
              /\ ~ret.results[i].success =>
                    ( ret.results[i].content = "" /\ ret.results[i].error_message # NONE )

(***************************************************************************)
(* Applicant analysis of a document list                                   *)
(***************************************************************************)
AnalysisOver == entry \in { "full", "local" } /\ pcA = "done"
DisplayNames(files) == [i \in 1..Len(files) |-> files[i].display_name]
DocNames == [i \in 1..Len(docs) |-> Basename(docs[i])]

\* C18: applicant analysis of a list of N document references makes at most
\* one provider call, with the handles of all N documents attached in
\* input order; when it returns, that call was made and every handle was
\* released; the list of references itself never makes the analysis fail.
C18_SingleProviderCall ==
    AnalysisOver =>
        /\ Len(genLog) <= 1
        /\ \A c \in 1..Len(genLog) : DisplayNames(genLog[c]) = DocNames
        /\ aRes.status = "ok" =>
              /\ Len(genLog) = 1
              /\ \A id \in Ids(genLog[1]) : deleteCalls[id] = 1
        /\ aRes.status = "err" => aRes.src # "load_from_s3:key_is_list"

(***************************************************************************)
(* The file list of the combined prompt (analyze_local_pdfs)               *)
(***************************************************************************)
MaxFiles == 3

\* display names of uploaded documents
FileNames ==
    { << "r", "e", "s", "u", "m", "e", ".", "p", "d", "f" >>,
      << "R", "e", "s", "u", "m", "e", "_", "p", "o", "r", "t", "f", "o", "l", "i", "o", ".", "p", "d", "f" >>,
      << "p", "o", "r", "t", "f", "o", "l", "i", "o", ".", "p", "d", "f" >>,
      << "E", "S", "S", "A", "Y", ".", "p", "d", "f" >>,
      << "e", "s", "s", "a", "y", "_", "P", "O", "R", "T", "F", "O", "L", "I", "O", ".", "p", "d", "f" >>,
      << "c", "v", ".", "p", "d", "f" >>,
      << "ko:i", "ko:ryeok", "ko:seo", ".", "p", "d", "f" >>,
      << "ko:ja", "ko:so", "ko:seo", ".", "p", "d", "f" >> }

KoResume == << "ko:i", "ko:ryeok", "ko:seo" >>
KoPortfolio == << "ko:po", "ko:teu", "ko:pol", "ko:ri", "ko:o" >>
KoStatement == << "ko:ja", "ko:gi", "ko:so", "ko:gae", "ko:seo" >>
KoJasoseo == << "ko:ja", "ko:so", "ko:seo" >>

RESUME == "iryeokseo (Resume)"
PORTFOLIO == "poteupollio (Portfolio)"
STATEMENT == "jagisogaeseo (Personal Statement)"
OTHER_DOC == "gita munseo"

\* doc_type with the portfolio rule tried before the resume rule
doc_type_PortfolioFirst(filename) ==
    IF Contains(filename, KoPortfolio)
       \/ Contains(Lower(filename), << "p", "o", "r", "t", "f", "o", "l", "i", "o" >>)
    THEN PORTFOLIO
    ELSE IF Contains(filename, KoResume)
            \/ Contains(Lower(filename), << "r", "e", "s", "u", "m", "e" >>)
    THEN RESUME
    ELSE IF \/ Contains(filename, KoStatement)
            \/ Contains(Lower(filename), << "e", "s", "s", "a", "y" >>)
            \/ Contains(filename, KoJasoseo)
    THEN STATEMENT
    ELSE OTHER_DOC

\* the if / elif chain that guesses the document type from the file name
doc_type(filename) ==
    IF Contains(filename, KoResume)
       \/ Contains(Lower(filename), << "r", "e", "s", "u", "m", "e" >>)
    THEN RESUME
    ELSE IF Contains(filename, KoPortfolio)
            \/ Contains(Lower(filename), << "p", "o", "r", "t", "f", "o", "l", "i", "o" >>)
    THEN PORTFOLIO
    ELSE IF \/ Contains(filename, KoStatement)
            \/ Contains(Lower(filename), << "e", "s", "s", "a", "y" >>)
            \/ Contains(filename, KoJasoseo)
    THEN STATEMENT
    ELSE OTHER_DOC

\* f"{i}. {filename} - {doc_type}"
Description(i, filename) ==
    NatToText(i) \o << ".", " " >> \o filename \o << " ", "-", " " >> \o << doc_type(filename) >>

\* file_descriptions for the uploaded files
file_descriptions(files) == [i \in 1..Len(files) |-> Description(i, files[i])]

NoDescriptions == [done |-> FALSE, lines |-> << >>]

InitLabels ==
    /\ NoPipeline
    /\ call = "file_descriptions"
    /\ arg \in SeqsUpTo(FileNames, MaxFiles) \ { << >> }
    /\ ret = NoDescriptions

\* step 3 of analyze_local_pdfs
Describe_Files ==
    /\ call = "file_descriptions"
    /\ ~ret.done
    /\ ret' = [done |-> TRUE, lines |-> file_descriptions(arg)]
    /\ UNCHANGED << call, arg, pipelineVars >>

SpecLabels == InitLabels /\ [][Describe_Files]_vars

\* the rules in their fixed order: label, names matched as written, names
\* matched in the lower-cased file name
LabelRules ==
    << [label |-> RESUME, exact |-> { KoResume }, lowered |-> { << "r", "e", "s", "u", "m", "e" >> }],
       [label |-> PORTFOLIO, exact |-> { KoPortfolio }, lowered |-> { << "p", "o", "r", "t", "f", "o", "l", "i", "o" >> }],
       [label |-> STATEMENT, exact |-> { KoStatement, KoJasoseo }, lowered |-> { << "e", "s", "s", "a", "y" >> }] >>

RuleMatches(r, filename) ==
    \/ \E k \in LabelRules[r].exact : Contains(filename, k)
    \/ \E k \in LabelRules[r].lowered : Contains(Lower(filename), k)

FirstRuleLabel(filename) ==
    LET hits == { r \in 1..Len(LabelRules) : RuleMatches(r, filename) }
    IN  IF hits = { } THEN OTHER_DOC ELSE LabelRules[Min(hits)].label

Described == call = "file_descriptions" /\ ret.done
LabelOf(line) == line[Len(line)]

SaveAttempted(record) == \E i \in 1..Len(saves) : saves[i] = record

\* C20: a save is attempted only once the record is fully formed (both
\* provider calls of the organization branch made, the applicant analysis
\* returned and its handles released), and a stage whose save was attempted
\* returns its record whether or not the save raised.
C20_SaveFailureNotFatal ==
    /\ SaveAttempted("company") => ( llmCalls = 2 /\ pcC = "done" )
    /\ SaveAttempted("applicant") => ( Len(genLog) = 1 /\ pending = Ok /\ pcA = "done" )
    /\ SaveAttempted("company") => cRes = Ok
    /\ SaveAttempted("applicant") => aRes = Ok

(***************************************************************************)
(* Error kinds seen by the request layer                                   *)
(***************************************************************************)
\* analyze_culture_fit: detail.error_type is type(e).__name__
error_type(e) == e.kind

\* the failure class of an error, by the statement that raised it
FailureClass(e) ==
    CASE e.src = "CompanyAnalysisChain.run:scrape" -> "primary_fetch"
      [] e.src = "CompanyAnalysisChain.run:match" -> "unsupported"
      [] e.src = "analyze:state" -> "document_state"
      [] e.src \in { "collect_company_data:parse", "analyze_culture:parse",
                     "json.loads", "compare:parse" } -> "malformed_output"
      [] OTHER -> "other"

\* C21: failures of two different classes of the taxonomy carry different
\* kinds: when both branches of one run failed, in different classes, the
\* error_type of the one differs from the error_type of the other; and the
\* caller gets one failure, the kind of which is that of a branch.
C21_DistinctKinds ==
    /\ ( /\ cRes.status = "err" /\ aRes.status = "err"
         /\ FailureClass(cRes) # "other" /\ FailureClass(aRes) # "other"
         /\ FailureClass(cRes) # FailureClass(aRes) )
       => error_type(cRes) # error_type(aRes)
    /\ ( pcM = "done" /\ outcome.status = "err" /\ Full
         /\ FailureClass(outcome) # "other" /\ FailureClass(outcome) # "malformed_output" )
       => outcome \in { cRes, aRes }

(***************************************************************************)
(* CultureCompareChain.run_from_db: comparison of two stored records       *)
(***************************************************************************)
StoredCompanies == { "Toss", "Upstage" }
StoredCandidates == { "kim", "lee" }

\* collection.find_one: the stored document, or None
find_one(collection, name) == IF name \in collection THEN name ELSE NONE

\* what a lookup of the store can do: answer, or raise a driver error
LookupOutcomes == { "answer", "raise" }

\* the test of if not company_profile / if not developer_profile
RecordMissing_Never(profile) == FALSE

RecordMissing(profile) == profile = NONE

FromDbStart ==
    [pc |-> "handle", lookups |-> << >>, providerCalls |-> 0, saveCalls |-> 0,
     result |-> Pending]

\* save_to_db decides whether the constructor makes a DatabaseHandler
InitFromDb ==
    /\ NoPipeline
    /\ call = "run_from_db"
    /\ arg \in [ save_to_db : BOOLEAN,
                 companies : SUBSET StoredCompanies,
                 applicants : SUBSET StoredCandidates,
                 company_name : StoredCompanies,
                 developer_name : StoredCandidates ]
    /\ ret = FromDbStart

FromDbRaise(e) == ret' = [ret EXCEPT !.pc = "raised", !.result = e]

\* if not self.db: raise ValueError
FromDb_Handle ==
    /\ call = "run_from_db"
    /\ ret.pc = "handle"
    /\ IF ~arg.save_to_db
       THEN FromDbRaise(Err("ValueError", "run_from_db:db", NONE))
       ELSE ret' = [ret EXCEPT !.pc = "company"]
    /\ UNCHANGED << call, arg, pipelineVars >>

\* get_company_profile and its check
FromDb_Company ==
    /\ call = "run_from_db"
    /\ ret.pc = "company"
    /\ \E o \in LookupOutcomes :
         IF o = "raise"
         THEN ret' = [ret EXCEPT !.pc = "raised",
                                 !.result = Err("PyMongoError", "get_company_profile", NONE),
                                 !.lookups = Append(@, [coll |-> "companies", answer |-> "raise"])]
         ELSE LET company_profile == find_one(arg.companies, arg.company_name)
              IN  ret' = [ret EXCEPT
                        !.lookups = Append(@, [coll |-> "companies", answer |-> company_profile]),
                        !.pc = IF RecordMissing(company_profile) THEN "raised" ELSE "applicant",
                        !.result = IF RecordMissing(company_profile)
                                   THEN Err("ValueError", "run_from_db:company", arg.company_name)
                                   ELSE @]
    /\ UNCHANGED << call, arg, pipelineVars >>

\* get_applicant_profile and its check
FromDb_Applicant ==
    /\ call = "run_from_db"
    /\ ret.pc = "applicant"
    /\ \E o \in LookupOutcomes :
         IF o = "raise"
         THEN ret' = [ret EXCEPT !.pc = "raised",
                                 !.result = Err("PyMongoError", "get_applicant_profile", NONE),
                                 !.lookups = Append(@, [coll |-> "applicants", answer |-> "raise"])]
         ELSE LET developer_profile == find_one(arg.applicants, arg.developer_name)
              IN  ret' = [ret EXCEPT
                        !.lookups = Append(@, [coll |-> "applicants", answer |-> developer_profile]),
                        !.pc = IF RecordMissing(developer_profile) THEN "raised" ELSE "run",
                        !.result = IF RecordMissing(developer_profile)
                                   THEN Err("ValueError", "run_from_db:applicant", arg.developer_name)
                                   ELSE @]
    /\ UNCHANGED << call, arg, pipelineVars >>

\* self.run: compare (provider call and extraction), _meta, then the save
FromDb_Run ==
    /\ call = "run_from_db"
    /\ ret.pc = "run"
    /\ \E r \in LLMOutcomes :
        CASE r = "raise" ->
                ret' = [ret EXCEPT !.pc = "raised", !.providerCalls = @ + 1,
                                   !.result = Err("ProviderError", "compare:ainvoke", NONE)]
          [] r = "malformed" ->
                ret' = [ret EXCEPT !.pc = "raised", !.providerCalls = @ + 1,
                                   !.result = Err("JSONDecodeError", "compare:parse", NONE)]
          [] r = "json" ->
                \E saved \in BOOLEAN :
                    ret' = [ret EXCEPT
                        !.providerCalls = @ + 1,
                        !.saveCalls = @ + 1,
                        !.pc = IF saved THEN "returned" ELSE "raised",
                        !.result = IF saved THEN Ok
                                   ELSE Err("PyMongoError", "save_comparison_result", NONE)]
    /\ UNCHANGED << call, arg, pipelineVars >>

NextFromDb == FromDb_Handle \/ FromDb_Company \/ FromDb_Applicant \/ FromDb_Run

SpecFromDb == InitFromDb /\ [][NextFromDb]_vars

FromDbOver == call = "run_from_db" /\ ret.pc \in { "raised", "returned" }
LookedUp(coll) == \E i \in 1..Len(ret.lookups) : ret.lookups[i].coll = coll
AnsweredNothing == \E i \in 1..Len(ret.lookups) : ret.lookups[i].answer = NONE

\* C22: the comparison provider is called only when the store handle exists
\* and both records are in the store; with the handle absent or a lookup
\* answering nothing the call ends in a ValueError with no provider call and
\* no save; the applicant record is looked up only after the organization
\* record was found.
C22_BothRecordsRequired ==
    call = "run_from_db" =>
        /\ ret.providerCalls > 0 =>
              /\ arg.save_to_db
              /\ arg.company_name \in arg.companies
              /\ arg.developer_name \in arg.applicants
        /\ ( FromDbOver /\ ( ~arg.save_to_db \/ AnsweredNothing ) ) =>
              /\ ret.result.status = "err" /\ ret.result.kind = "ValueError"
              /\ ret.providerCalls = 0 /\ ret.saveCalls = 0
        /\ ( ret.pc \notin { "handle", "company", "applicant" } /\ arg.save_to_db
             /\ ( arg.company_name \notin arg.companies
                  \/ arg.developer_name \notin arg.applicants ) ) =>
              ret.providerCalls = 0 /\ ret.saveCalls = 0 /\ ret.result.status = "err"
        /\ LookedUp("applicants") =>
              /\ Len(ret.lookups) = 2
              /\ ret.lookups[1] = [coll |-> "companies", answer |-> arg.company_name]
        /\ ~arg.save_to_db => ret.lookups = << >>

\* the organization record is stored and the applicant record is not: the
\* second lookup answers nothing and the call ends in the ValueError
C22_Witness ==
    /\ FromDbOver
    /\ Len(ret.lookups) = 2
    /\ ret.lookups[2] = [coll |-> "applicants", answer |-> NONE]
    /\ ret.result = Err("ValueError", "run_from_db:applicant", arg.developer_name)

(***************************************************************************)
(* Suspension of the branches at external calls                            *)
(***************************************************************************)
\* the applicant branch stands at an external call: S3 download, Files API
\* upload, a status poll, or the provider invocation
AtExternalCallA == pcA \in { "load", "upload", "poll", "generate" }

\* the organization branch has a continuation waiting for the loop
WaitingC == pcC \notin { "init", "done" }

\* C23: a branch standing at an external call has yielded: while the
\* applicant branch is between its upload and the end of its polling (or at
\* any other external call), a waiting organization branch can take its
\* next step.
C23_YieldAtExternalCalls ==
    ( Full /\ AtExternalCallA /\ WaitingC ) => CanRunC

(***************************************************************************)
(* Evaluation records: scores and evidence of the axes                     *)
(***************************************************************************)
MaxScore == 4

KeyScore == << "s", "c", "o", "r", "e" >>
KeyEvidence == << "e", "v", "i", "d", "e", "n", "c", "e" >>
KeyMeta == << "_", "m", "e", "t", "a" >>
AxisNames == { << "t", "e", "c", "h" >>, << "o", "w", "n" >> }

\* one axis as the provider may write it: any score of the scale with or
\* without evidence items
AxisValues ==
    { JObj(<< << KeyScore, JNum(s) >>, << KeyEvidence, JArr(e) >> >>) :
        s \in { 0, 1, MaxScore }, e \in { << >>, << JStr(<< "q" >>) >> } }

\* message content of the scoring call: a JSON object of two axes
RecordOutputs ==
    { Dumps(JObj(<< << << "t", "e", "c", "h" >>, a >>, << << "o", "w", "n" >>, b >> >>)) :
        a \in AxisValues, b \in AxisValues }

AnalyzeCalls == { "analyze_culture", "analyze_pdf" }

InitRecord ==
    /\ NoPipeline
    /\ call \in AnalyzeCalls
    /\ arg \in RecordOutputs
    /\ ret = Unparsed

\* result["_meta"] = {...} of CompanyAnalysisChain.run
WithMeta(r) ==
    IF r.ok /\ r.val.t = "obj"
    THEN [r EXCEPT !.val = JObj(Append(r.val.items, << KeyMeta, JObj(<< >>) >>))]
    ELSE r

\* analyze_culture returns what the extractor parsed; run attaches _meta
Record_Company ==
    /\ call = "analyze_culture"
    /\ ~ret.done
    /\ ret' = Returned(WithMeta(parse_company(arg)))
    /\ UNCHANGED << call, arg, pipelineVars >>

\* analyze_pdf returns json.loads(response_text)
Record_Applicant ==
    /\ call = "analyze_pdf"
    /\ ~ret.done
    /\ ret' = Returned(parse_applicant(arg))
    /\ UNCHANGED << call, arg, pipelineVars >>

NextRecord == Record_Company \/ Record_Applicant

SpecRecord == InitRecord /\ [][NextRecord]_vars

\* the value of member key of a parsed object
Member(obj, key) ==
    LET i == CHOOSE i \in 1..Len(obj.items) : obj.items[i][1] = key
    IN  obj.items[i][2]

\* C24: in every record an analysis returns, each axis has a score above 0
\* exactly when its evidence list is non-empty.
C24_ScoreEvidence ==
    ( call \in AnalyzeCalls /\ ret.done /\ ret.ok ) =>
        \A axis \in AxisNames :
            ( Member(Member(ret.val, axis), KeyScore).n > 0 )
            <=> ( Member(Member(ret.val, axis), KeyEvidence).items # << >> )

(***************************************************************************)
(* Release of remote handles: delete_file and delete_files                 *)
(***************************************************************************)
HandleNames == { 1, 2 }

\* what client.files.delete does for one handle
DeleteOutcomes == { "deleted", "raise" }

\* delete_file: True from the try block, False from except Exception
delete_file_AlwaysTrue(deletion) == TRUE

delete_file(deletion) == deletion = "deleted"

DeleteStart == [pc |-> "loop", attempts |-> << >>, outcomes |-> << >>, deleted_count |-> 0]

InitDelete ==
    /\ NoPipeline
    /\ call = "delete_files"
    /\ arg \in SeqsUpTo(HandleNames, MaxFiles)
    /\ ret = DeleteStart

\* one iteration of the for loop of delete_files
Delete_One ==
    /\ call = "delete_files"
    /\ ret.pc = "loop"
    /\ Len(ret.attempts) < Len(arg)
    /\ LET gemini_file == arg[Len(ret.attempts) + 1]
       IN  \E o \in DeleteOutcomes :
             ret' = [ret EXCEPT
                        !.attempts = Append(@, gemini_file),
                        !.outcomes = Append(@, o),
                        !.deleted_count = IF delete_file(o) THEN @ + 1 ELSE @]
    /\ UNCHANGED << call, arg, pipelineVars >>

\* return deleted_count
Delete_Return ==
    /\ call = "delete_files"
    /\ ret.pc = "loop"
    /\ Len(ret.attempts) = Len(arg)
    /\ ret' = [ret EXCEPT !.pc = "returned"]
    /\ UNCHANGED << call, arg, pipelineVars >>

NextDelete == Delete_One \/ Delete_Return

SpecDelete == InitDelete /\ [][NextDelete]_vars

Deletions == Cardinality({ i \in 1..Len(ret.outcomes) : ret.outcomes[i] = "deleted" })

\* C25: delete_files attempts the handles one by one in list order, a
\* deletion that raised stops nothing, the call returns (never raises) after
\* one attempt per handle, and the count it returns is the number of
\* deletions that succeeded.
C25_ReleaseNeverRaises ==
    call = "delete_files" =>
        /\ ret.pc \in { "loop", "returned" }
        /\ ret.attempts = SubSeq(arg, 1, Len(ret.attempts))
        /\ ret.deleted_count = Deletions
        /\ ret.pc = "returned" => ret.attempts = arg

\* three handles, the deletion of the first raised, the other two succeeded
C25_Witness ==
    /\ call = "delete_files"
    /\ ret.pc = "returned"
    /\ Len(arg) = 3
    /\ ret.outcomes = << "raise", "deleted", "deleted" >>
    /\ ret.deleted_count = 2

(***************************************************************************)
(* URL validation in front of the reader-proxy and model-direct scrapers   *)
(***************************************************************************)
HttpPrefix == << "h", "t", "t", "p", ":", "/", "/" >>
HttpsPrefix == << "h", "t", "t", "p", "s", ":", "/", "/" >>
Rejected(url) ==
    /\ ~( Len(url) >= 7 /\ \A k \in 1..7 : url[k] = HttpPrefix[k] )
    /\ ~( Len(url) >= 8 /\ \A k \in 1..8 : url[k] = HttpsPrefix[k] )
ValidatingScrapers == { "JinaScraper", "GeminiScraper" }

\* C26: validate_url accepts exactly the texts that begin with http:// or
\* https://; for a rejected URL the reader-proxy and model-direct scrapers
\* give success = FALSE with empty content and hand the URL to no external
\* service.
C26_UrlValidation ==
    /\ call \in Scrapers => \A i \in 1..Len(arg) : validate_url(arg[i]) <=> ~Rejected(arg[i])
    /\ call \in ValidatingScrapers =>
         \A i \in 1..Len(ret.results) :
            Rejected(arg[i]) =>
                /\ ~ret.results[i].success
                /\ ret.results[i].content = ""
                /\ \A k \in 1..Len(ret.calls) : ret.calls[k] # arg[i]

\* a batch of the two rejected URLs went through the model-direct scraper
C26_Witness ==
    /\ call = "GeminiScraper"
    /\ ret.pc = "returned"
    /\ arg = << << "f", "t", "p", ":", "/", "/", "c" >>,
                << "i", "n", "v", "a", "l", "i", "d", "-", "u", "r", "l" >> >>
    /\ ret.calls = << >>
    /\ \A i \in 1..2 : ~ret.results[i].success

(***************************************************************************)
(* The wait loop of _upload_to_gemini for any wait budget                  *)
(***************************************************************************)
MaxWait == 8
SleepSeconds == 2

\* while uploaded_file.state == PROCESSING and elapsed < max_wait_seconds
WaitCond(state, el, max_wait) == state = "PROCESSING" /\ el < max_wait

WaitStart(state) ==
    [pc |-> "wait", state |-> state, elapsed |-> 0, slept |-> 0, queries |-> 0]

\* the upload answered with some state; the caller chose the budget
InitWait ==
    /\ NoPipeline
    /\ call = "_upload_to_gemini"
    /\ arg \in [ max_wait_seconds : 0..MaxWait, wait_for_processing : BOOLEAN ]
    /\ \E st \in States : ret = WaitStart(st)

\* one iteration: time.sleep(2), elapsed += 2, files.get
Wait_Poll ==
    /\ call = "_upload_to_gemini"
    /\ ret.pc = "wait"
    /\ arg.wait_for_processing
    /\ WaitCond(ret.state, ret.elapsed, arg.max_wait_seconds)
    /\ \E st \in States :
         ret' = [ret EXCEPT !.state = st,
                            !.elapsed = @ + SleepSeconds,
                            !.slept = @ + SleepSeconds,
                            !.queries = @ + 1]
    /\ UNCHANGED << call, arg, pipelineVars >>

\* the loop is skipped or over: return GeminiFile(state = uploaded_file.state)
Wait_Return ==
    /\ call = "_upload_to_gemini"
    /\ ret.pc = "wait"
    /\ ~( arg.wait_for_processing
          /\ WaitCond(ret.state, ret.elapsed, arg.max_wait_seconds) )
    /\ ret' = [ret EXCEPT !.pc = "returned"]
    /\ UNCHANGED << call, arg, pipelineVars >>

NextWait == Wait_Poll \/ Wait_Return

SpecWait == InitWait /\ [][NextWait]_vars

\* C27: for every budget, odd values and 0 included, the loop never sleeps
\* longer than max_wait_seconds in total, makes at most
\* ceil(max_wait_seconds / 2) status queries, and makes none with a budget
\* of 0.
C27_WaitBudgetHardCap ==
    call = "_upload_to_gemini" =>
        /\ ret.slept <= arg.max_wait_seconds
        /\ ret.queries <= (arg.max_wait_seconds + 1) \div 2
        /\ arg.max_wait_seconds = 0 => ret.queries = 0

(***************************************************************************)
(* Browser teardown at the exits of the organization stage                 *)
(***************************************************************************)
\* C28: once CompanyAnalysisChain.run has exited, by return or by raise, and
\* once run_full_analysis has returned to its caller, no browser started by
\* the stage is still running.
C28_BrowserTornDown ==
    /\ pcC = "done" => browser = "none"
    /\ pcM = "done" => browser = "none"

(***************************************************************************)
(* BrowserScraper: the browser of one resolver over scrapes and closes     *)
(***************************************************************************)
MaxOps == 4

\* __init__: no browser, no driver; the history fields count what the
\* resolver has started and opened so far
ResolverStart ==
    [_browser |-> 0, _playwright |-> 0, alive |-> {}, drivers |-> {},
     launches |-> 0, starts |-> 0, opened |-> 0, pagesClosed |-> 0, log |-> << >>]

InitResolver ==
    /\ NoPipeline
    /\ call = "BrowserScraper"
    /\ arg = << >>
    /\ ret = ResolverStart

\* start(): if self._browser is None
NeedsLaunch_Always(b) == TRUE

NeedsLaunch(b) == b = 0

\* start() may fail in async_playwright().start() or in chromium.launch()
StartOutcomes == { "driver_error", "launch_error", "launched" }

\* the try block of scrape: new_page raises, a later step raises, or the
\* text is returned
PageOutcomes == { "no_page", "failed", "ok" }

\* the state after start() went through
Started(r, o) ==
    IF ~NeedsLaunch(r._browser) THEN r
    ELSE CASE o = "driver_error" -> r
           [] o = "launch_error" ->
                [r EXCEPT !._playwright = r.starts + 1,
                          !.drivers = @ \cup { r.starts + 1 },
                          !.starts = @ + 1]
           [] OTHER ->
                [r EXCEPT !._playwright = r.starts + 1,
                          !.drivers = @ \cup { r.starts + 1 },
                          !.starts = @ + 1,
                          !._browser = r.launches + 1,
                          !.alive = @ \cup { r.launches + 1 },
                          !.launches = @ + 1]

\* scrape(url): start(), then the page is opened, used and closed in the
\* finally clause
Resolver_Scrape ==
    /\ call = "BrowserScraper"
    /\ Len(ret.log) < MaxOps
    /\ \E o \in StartOutcomes, p \in PageOutcomes :
         LET r == Started(ret, o)
         IN  IF r._browser = 0
             THEN ret' = [r EXCEPT !.log = Append(@, "scrape:raised")]
             ELSE ret' = [r EXCEPT
                            !.opened = IF p = "no_page" THEN @ ELSE @ + 1,
                            !.pagesClosed = IF p = "no_page" THEN @ ELSE @ + 1,
                            !.log = Append(@, IF p = "ok" THEN "scrape:ok"
                                              ELSE "scrape:failed")]
    /\ UNCHANGED << call, arg, pipelineVars >>

\* close()
Resolver_Close ==
    /\ call = "BrowserScraper"
    /\ Len(ret.log) < MaxOps
    /\ ret' = [ret EXCEPT
                 !.alive = IF ret._browser # 0 THEN @ \ { ret._browser } ELSE @,
                 !._browser = 0,
                 !.drivers = IF ret._playwright # 0 THEN @ \ { ret._playwright } ELSE @,
                 !._playwright = 0,
                 !.log = Append(@, "close")]
    /\ UNCHANGED << call, arg, pipelineVars >>

NextResolver == Resolver_Scrape \/ Resolver_Close

SpecResolver == InitResolver /\ [][NextResolver]_vars

Scraped(r) == \E i \in 1..Len(r.log) : r.log[i] # "close"
IsScrapeStep == ret'.log # ret.log /\ ret'.log[Len(ret'.log)] # "close"
IsCloseStep == ret'.log # ret.log /\ ret'.log[Len(ret'.log)] = "close"
SameButLog(r1, r2) == [r1 EXCEPT !.log = << >>] = [r2 EXCEPT !.log = << >>]

\* C29: no browser is launched before the first scrape; at most one browser
\* of the resolver is alive and it is the one the resolver holds; every page
\* a scrape opened is closed when the scrape is over; a scrape on a resolver
\* that holds a browser reuses it without a launch; a scrape on a resolver
\* without one launches a fresh instance or raises; close leaves no browser
\* alive and a second close changes nothing.
C29_BrowserLifecycle ==
    /\ [] ( call = "BrowserScraper" =>
              /\ ~Scraped(ret) => ret.launches = 0
              /\ Cardinality(ret.alive) <= 1
              /\ ret.alive = IF ret._browser = 0 THEN {} ELSE { ret._browser }
              /\ ret.opened = ret.pagesClosed )
    /\ [][ call = "BrowserScraper" =>
             /\ ( IsScrapeStep /\ ret._browser # 0 ) =>
                    ( ret'._browser = ret._browser /\ ret'.launches = ret.launches )
             /\ ( IsScrapeStep /\ ret._browser = 0 /\ ret'._browser # 0 ) =>
                    ( ret'.launches = ret.launches + 1 /\ ret'._browser = ret'.launches )
             /\ IsCloseStep => ( ret'._browser = 0 /\ ret'.alive = {} )
             /\ ( IsCloseStep /\ ret._browser = 0 /\ ret._playwright = 0 ) =>
                    SameButLog(ret', ret) ]_vars

\* two scrapes on one browser, a close, then a scrape on a second browser
C29_Witness ==
    /\ call = "BrowserScraper"
    /\ ret.log = << "scrape:ok", "scrape:failed", "close", "scrape:ok" >>
    /\ ret.launches = 2
    /\ ret._browser = 2
    /\ ret.opened = 3

(***************************************************************************)
(* Cleanup of the chains by the orchestrator                               *)
(***************************************************************************)
CloseCount(chain) == Cardinality({ i \in 1..Len(closed) : closed[i] = chain })

\* C30: when run_full_analysis has left its finally clause, close() was
\* invoked exactly once on the organization chain and exactly once on the
\* applicant chain, also when the close of the organization chain raised; no
\* close is invoked before the clause.
C30_BothChainsClosed ==
    /\ ( Full /\ pcM = "done" ) =>
          ( CloseCount("company") = 1 /\ CloseCount("applicant") = 1 )
    /\ ( Full /\ pcM # "done" ) => closed = << >>

====
